---------------------------- MODULE Spec2Model ----------------------------
(***************************************************************************)
(* Model of logstats.py: the cleaner generator, the analyze loop that      *)
(* consumes it, and print_report.  Text is modelled as sequences of        *)
(* one-character strings, so that split, strip and join are computed the   *)
(* way Python computes them.  Python dicts (insertion ordered) are         *)
(* sequences of [key, val] entries in insertion order.  An optional value  *)
(* (None or x) is a sequence of length 0 or 1.                             *)
(***************************************************************************)
EXTENDS Naturals, Sequences, FiniteSets, TLC

(***************************************************************************)
(* Log lines and strings used as inputs, each with the text it spells.     *)
(***************************************************************************)
\* 'unit-mysql-0 2024-01-01T00:00:00 INFO starting up\n'
LineInfoStart ==
    <<"u","n","i","t","-","m","y","s","q","l","-","0"," ","2","0","2",
      "4","-","0","1","-","0","1","T","0","0",":","0","0",":","0","0",
      " ","I","N","F","O"," ","s","t","a","r","t","i","n","g"," ","u",
      "p","\n">>
\* 'unit-mysql-0 2024-01-01T00:00:01 WARNING disk low\n'
LineWarnDisk1 ==
    <<"u","n","i","t","-","m","y","s","q","l","-","0"," ","2","0","2",
      "4","-","0","1","-","0","1","T","0","0",":","0","0",":","0","1",
      " ","W","A","R","N","I","N","G"," ","d","i","s","k"," ","l","o",
      "w","\n">>
\* 'unit-mysql-0 2024-01-01T00:00:02 WARNING disk low\n'
LineWarnDisk2 ==
    <<"u","n","i","t","-","m","y","s","q","l","-","0"," ","2","0","2",
      "4","-","0","1","-","0","1","T","0","0",":","0","0",":","0","2",
      " ","W","A","R","N","I","N","G"," ","d","i","s","k"," ","l","o",
      "w","\n">>
\* 'badline\n'
LineBad ==
    <<"b","a","d","l","i","n","e","\n">>
\* 'unit-nginx-1 2024-01-01T00:00:03 ERROR crash\n'
LineErrCrash ==
    <<"u","n","i","t","-","n","g","i","n","x","-","1"," ","2","0","2",
      "4","-","0","1","-","0","1","T","0","0",":","0","0",":","0","3",
      " ","E","R","R","O","R"," ","c","r","a","s","h","\n">>
\* 'unit-mycharm-name-42 x INFO hello\n'
LineHyphenCharm ==
    <<"u","n","i","t","-","m","y","c","h","a","r","m","-","n","a","m",
      "e","-","4","2"," ","x"," ","I","N","F","O"," ","h","e","l","l",
      "o","\n">>
\* 'unit-nginx-1 x CRITICAL crash\n'
LineCritical ==
    <<"u","n","i","t","-","n","g","i","n","x","-","1"," ","x"," ","C",
      "R","I","T","I","C","A","L"," ","c","r","a","s","h","\n">>
\* 'machine-0-1 x INFO hello\n'
LineMachine ==
    <<"m","a","c","h","i","n","e","-","0","-","1"," ","x"," ","I","N",
      "F","O"," ","h","e","l","l","o","\n">>
\* 'unit-0 x INFO hello\n'
LineTwoParts ==
    <<"u","n","i","t","-","0"," ","x"," ","I","N","F","O"," ","h","e",
      "l","l","o","\n">>
\* '  unit-nginx-1\tx  WARNING   disk low \t\n'
LineOddSpacing ==
    <<" "," ","u","n","i","t","-","n","g","i","n","x","-","1","\t","x",
      " "," ","W","A","R","N","I","N","G"," "," "," ","d","i","s","k",
      " ","l","o","w"," ","\t","\n">>
\* 'unit-mysql-0 x INFO \n'
LineThreeFields ==
    <<"u","n","i","t","-","m","y","s","q","l","-","0"," ","x"," ","I",
      "N","F","O"," ","\n">>
\* 'unit--7 x DEBUG hello\n'
LineEmptyCharm ==
    <<"u","n","i","t","-","-","7"," ","x"," ","D","E","B","U","G"," ",
      "h","e","l","l","o","\n">>
\* 'nginx'
StrNginx ==
    <<"n","g","i","n","x">>
\* 'mysql'
StrMysql ==
    <<"m","y","s","q","l">>
\* 'mycharm-name'
StrMycharmName ==
    <<"m","y","c","h","a","r","m","-","n","a","m","e">>
\* 'unit'
StrUnit ==
    <<"u","n","i","t">>
\* 'disk low'
StrDiskLow ==
    <<"d","i","s","k"," ","l","o","w">>
\* 'starting up'
StrStartingUp ==
    <<"s","t","a","r","t","i","n","g"," ","u","p">>
\* 'crash'
StrCrash ==
    <<"c","r","a","s","h">>
\* 'INFO'
StrINFO ==
    <<"I","N","F","O">>
\* 'DEBUG'
StrDEBUG ==
    <<"D","E","B","U","G">>
\* 'WARNING'
StrWARNING ==
    <<"W","A","R","N","I","N","G">>
\* 'ERROR'
StrERROR ==
    <<"E","R","R","O","R">>
\* 'CRITICAL'
StrCRITICAL ==
    <<"C","R","I","T","I","C","A","L">>
\* 'hello'
StrHello ==
    <<"h","e","l","l","o">>

(***************************************************************************)
(* Bounds of the model.                                                    *)
(***************************************************************************)
\* Longest log file built freely from Vocabulary (ExampleInput is added).
MaxLines == 3

\* Minimum of fields we expect from a valid log line
MIN_REC_NO == 4

None == <<>>
Some(x) == <<x>>

\* The lines a log file of the model is built from.
Vocabulary ==
    { LineInfoStart, LineWarnDisk1, LineBad, LineErrCrash, LineHyphenCharm,
      LineCritical, LineMachine, LineTwoParts, LineOddSpacing,
      LineThreeFields, LineEmptyCharm }

\* The five-line log file of the end-to-end example.
ExampleInput ==
    << LineInfoStart, LineWarnDisk1, LineWarnDisk2, LineBad, LineErrCrash >>

\* A log file with a line of every fate: dropped for its field count, skipped
\* by the filter nginx, unresolvable severity, aggregated, dropped for its unit.
MixedInput ==
    << LineThreeFields, LineInfoStart, LineCritical, LineErrCrash, LineMachine >>

Inputs ==
    UNION { [1..n -> Vocabulary] : n \in 0..MaxLines }
        \cup { ExampleInput, MixedInput }

\* args.charm_filter: None without -c, else the string given (may be empty).
CharmFilters == { None, Some(<<>>), Some(StrNginx), Some(StrMysql) }

(***************************************************************************)
(* Python string methods.                                                  *)
(***************************************************************************)
\* The whitespace characters that occur in the inputs.
Whitespace == { " ", "\t", "\n" }

RECURSIVE lstrip(_)
lstrip(s) ==
    IF s # <<>> /\ Head(s) \in Whitespace THEN lstrip(Tail(s)) ELSE s

RECURSIVE rstrip(_)
rstrip(s) ==
    IF s # <<>> /\ s[Len(s)] \in Whitespace
    THEN rstrip(SubSeq(s, 1, Len(s) - 1))
    ELSE s

\* str.strip()
strip(s) == rstrip(lstrip(s))

\* The leading run of non-whitespace characters of s.
RECURSIVE word(_)
word(s) ==
    IF s = <<>> \/ Head(s) \in Whitespace
    THEN <<>>
    ELSE <<Head(s)>> \o word(Tail(s))

\* str.split(maxsplit=maxsplit): runs of whitespace separate the fields, and
\* after maxsplit splits the rest of the line, less its leading whitespace,
\* is the last field (trailing whitespace kept).
RECURSIVE split(_, _)
split(s, maxsplit) ==
    LET t == lstrip(s) IN
    IF t = <<>> THEN <<>>
    ELSE IF maxsplit = 0 THEN <<t>>
    ELSE LET w == word(t)
         IN  <<w>> \o split(SubSeq(t, Len(w) + 1, Len(t)), maxsplit - 1)

\* str.split(sep): every occurrence of sep separates, empty parts are kept.
RECURSIVE split_sep(_, _)
split_sep(s, sep) ==
    IF \E i \in 1..Len(s) : s[i] = sep
    THEN LET i == CHOOSE k \in 1..Len(s) :
                      s[k] = sep /\ \A j \in 1..(k - 1) : s[j] # sep
         IN  <<SubSeq(s, 1, i - 1)>> \o split_sep(SubSeq(s, i + 1, Len(s)), sep)
    ELSE <<s>>

\* sep.join(parts)
RECURSIVE join(_, _)
join(sep, parts) ==
    IF parts = <<>> THEN <<>>
    ELSE IF Len(parts) = 1 THEN parts[1]
    ELSE parts[1] \o <<sep>> \o join(sep, Tail(parts))

(***************************************************************************)
(* Insertion-ordered dicts: defaultdict(int) and Counter.                  *)
(***************************************************************************)
has_key(d, k) == \E i \in 1..Len(d) : d[i].key = k

index_of(d, k) == CHOOSE i \in 1..Len(d) : d[i].key = k

\* d[k] += n on a defaultdict(int) or Counter: a missing key is inserted last.
add(d, k, n) ==
    IF has_key(d, k)
    THEN [d EXCEPT ![index_of(d, k)].val = @ + n]
    ELSE Append(d, [key |-> k, val |-> n])

RECURSIVE sum_values(_)
sum_values(d) == IF d = <<>> THEN 0 ELSE Head(d).val + sum_values(Tail(d))

(***************************************************************************)
(* Severities and get_sev.                                                 *)
(***************************************************************************)
Severities == { "INFO", "DEBUG", "WARNING", "ERROR" }

\* The name of each member, as text.
name(sev) ==
    CASE sev = "INFO"    -> StrINFO
      [] sev = "DEBUG"   -> StrDEBUG
      [] sev = "WARNING" -> StrWARNING
      [] sev = "ERROR"   -> StrERROR

\* Severities[sev_str], None on KeyError.
get_sev(sev_str) ==
    IF \E sev \in Severities : name(sev) = sev_str
    THEN Some(CHOOSE sev \in Severities : name(sev) = sev_str)
    ELSE None

\* Mutant of cleaner_line: a line whose first field is not unit-shaped is
\* discarded without being counted.
cleaner_line_unit_uncounted(line) ==
    LET record == split(line, MIN_REC_NO - 1) IN
    IF Len(record) < MIN_REC_NO
    THEN [dropped |-> 1, yielded |-> <<>>]
    ELSE LET unit_field == split_sep(record[1], "-") IN
         IF Len(unit_field) >= 3 /\ unit_field[1] = StrUnit
         THEN LET charm == join("-", SubSeq(unit_field, 2, Len(unit_field) - 1))
              IN  [dropped |-> 0,
                   yielded |-> << <<charm, record[3], strip(record[4])>> >>]
         ELSE [dropped |-> 0, yielded |-> <<>>]

\* Mutant of cleaner_line: a line with too few fields is discarded without
\* being counted.
cleaner_line_short_uncounted(line) ==
    LET record == split(line, MIN_REC_NO - 1) IN
    IF Len(record) < MIN_REC_NO
    THEN [dropped |-> 0, yielded |-> <<>>]
    ELSE LET unit_field == split_sep(record[1], "-") IN
         IF Len(unit_field) >= 3 /\ unit_field[1] = StrUnit
         THEN LET charm == join("-", SubSeq(unit_field, 2, Len(unit_field) - 1))
              IN  [dropped |-> 0,
                   yielded |-> << <<charm, record[3], strip(record[4])>> >>]
         ELSE [dropped |-> 1, yielded |-> <<>>]

\* Mutant of cleaner_line: the trailing part of the unit field is not chopped
\* off ("-".join(unit_field[1:])).
cleaner_line_keeps_id(line) ==
    LET record == split(line, MIN_REC_NO - 1) IN
    IF Len(record) < MIN_REC_NO
    THEN [dropped |-> 1, yielded |-> <<>>]
    ELSE LET unit_field == split_sep(record[1], "-") IN
         IF Len(unit_field) >= 3 /\ unit_field[1] = StrUnit
         THEN LET charm == join("-", SubSeq(unit_field, 2, Len(unit_field)))
              IN  [dropped |-> 0,
                   yielded |-> << <<charm, record[3], strip(record[4])>> >>]
         ELSE [dropped |-> 1, yielded |-> <<>>]

(***************************************************************************)
(* cleaner: one iteration of its for loop, on one line.  dropped is what   *)
(* is added to datastore.dropped_cnt, yielded the records it yields.       *)
(***************************************************************************)
cleaner_line(line) ==
    LET record == split(line, MIN_REC_NO - 1) IN
    IF Len(record) < MIN_REC_NO
    THEN [dropped |-> 1, yielded |-> <<>>]
    ELSE LET unit_field == split_sep(record[1], "-") IN
         IF Len(unit_field) >= 3 /\ unit_field[1] = StrUnit
         THEN LET charm == join("-", SubSeq(unit_field, 2, Len(unit_field) - 1))
              IN  [dropped |-> 0,
                   yielded |-> << <<charm, record[3], strip(record[4])>> >>]
         ELSE [dropped |-> 1, yielded |-> <<>>]

\* Mutant of resumable: the cleaner runs ahead of its consumer (a list built
\* eagerly instead of a generator).
resumable_eager(yielded) == TRUE

\* The generator runs only when the consumer asks for the next record: it is
\* suspended at its yield until the record yielded has been consumed.
resumable(yielded) == yielded = <<>>

(***************************************************************************)
(* analyze: one iteration of its for loop, on one record.  branch names    *)
(* the path taken through the loop body.                                   *)
(***************************************************************************)
\* "charm_filter and charm != charm_filter": None and "" are both falsy.
filtered_out(charm, charm_filter) ==
    /\ charm_filter # None
    /\ charm_filter[1] # <<>>
    /\ charm # charm_filter[1]

\* Mutant of analyze_record: a record with an unresolvable severity is
\* counted as dropped.
analyze_record_counts_unresolved(rec, charm_filter, charm_severity_cnt, message_cnt) ==
    LET charm   == rec[1]
        sev_str == rec[2]
        msg     == rec[3]
        sev     == get_sev(sev_str)
    IN  IF filtered_out(charm, charm_filter)
        THEN [charm_severity_cnt |-> charm_severity_cnt,
              message_cnt        |-> message_cnt,
              dropped            |-> 0,
              branch             |-> "filtered"]
        ELSE IF sev # None
        THEN [charm_severity_cnt |->
                  IF has_key(charm_severity_cnt, charm)
                  THEN [charm_severity_cnt EXCEPT
                            ![index_of(charm_severity_cnt, charm)].val =
                                add(@, sev[1], 1)]
                  ELSE Append(charm_severity_cnt,
                              [key |-> charm, val |-> add(<<>>, sev[1], 1)]),
              message_cnt        |-> add(message_cnt, <<msg, sev[1]>>, 1),
              dropped            |-> 0,
              branch             |-> "aggregated"]
        ELSE [charm_severity_cnt |-> charm_severity_cnt,
              message_cnt        |-> message_cnt,
              dropped            |-> 1,
              branch             |-> "unresolved"]

\* Mutant of analyze_record: charm_severity_cnt[charm] is read before the
\* severity is resolved, which makes the defaultdict insert an empty entry.
analyze_record_touches_charm(rec, charm_filter, charm_severity_cnt, message_cnt) ==
    LET charm   == rec[1]
        sev_str == rec[2]
        msg     == rec[3]
        sev     == get_sev(sev_str)
        touched == IF has_key(charm_severity_cnt, charm)
                   THEN charm_severity_cnt
                   ELSE Append(charm_severity_cnt, [key |-> charm, val |-> <<>>])
    IN  IF filtered_out(charm, charm_filter)
        THEN [charm_severity_cnt |-> charm_severity_cnt,
              message_cnt        |-> message_cnt,
              dropped            |-> 0,
              branch             |-> "filtered"]
        ELSE IF sev # None
        THEN [charm_severity_cnt |->
                  [touched EXCEPT
                       ![index_of(touched, charm)].val = add(@, sev[1], 1)],
              message_cnt        |-> add(message_cnt, <<msg, sev[1]>>, 1),
              dropped            |-> 0,
              branch             |-> "aggregated"]
        ELSE [charm_severity_cnt |-> touched,
              message_cnt        |-> message_cnt,
              dropped            |-> 0,
              branch             |-> "unresolved"]

analyze_record(rec, charm_filter, charm_severity_cnt, message_cnt) ==
    LET charm   == rec[1]
        sev_str == rec[2]
        msg     == rec[3]
        sev     == get_sev(sev_str)
    IN  IF filtered_out(charm, charm_filter)
        THEN [charm_severity_cnt |-> charm_severity_cnt,
              message_cnt        |-> message_cnt,
              dropped            |-> 0,
              branch             |-> "filtered"]
        ELSE IF sev # None
        THEN [charm_severity_cnt |->
                  IF has_key(charm_severity_cnt, charm)
                  THEN [charm_severity_cnt EXCEPT
                            ![index_of(charm_severity_cnt, charm)].val =
                                add(@, sev[1], 1)]
                  ELSE Append(charm_severity_cnt,
                              [key |-> charm, val |-> add(<<>>, sev[1], 1)]),
              message_cnt        |-> add(message_cnt, <<msg, sev[1]>>, 1),
              dropped            |-> 0,
              branch             |-> "aggregated"]
        ELSE [charm_severity_cnt |-> charm_severity_cnt,
              message_cnt        |-> message_cnt,
              dropped            |-> 0,
              branch             |-> "unresolved"]

(***************************************************************************)
(* print_report.                                                           *)
(***************************************************************************)
\* [k for k, v in charm_severity_cnt.items() if Severities.WARNING in v]
warning_charms(charm_severity_cnt) ==
    LET hits == SelectSeq(charm_severity_cnt,
                          LAMBDA e : has_key(e.val, "WARNING"))
    IN  [i \in 1..Len(hits) |-> hits[i].key]

\* Mutant of add_all: severity_cnt[sev] = cnt, the sum forgotten.
RECURSIVE add_all_overwrite(_, _)
add_all_overwrite(severity_cnt, sev_dict) ==
    IF sev_dict = <<>> THEN severity_cnt
    ELSE LET k == Head(sev_dict).key
             n == Head(sev_dict).val
         IN  add_all_overwrite(
                 IF has_key(severity_cnt, k)
                 THEN [severity_cnt EXCEPT ![index_of(severity_cnt, k)].val = n]
                 ELSE Append(severity_cnt, [key |-> k, val |-> n]),
                 Tail(sev_dict))

\* for sev, cnt in sev_dict.items(): severity_cnt[sev] += cnt
RECURSIVE add_all(_, _)
add_all(severity_cnt, sev_dict) ==
    IF sev_dict = <<>> THEN severity_cnt
    ELSE add_all(add(severity_cnt, Head(sev_dict).key, Head(sev_dict).val),
                 Tail(sev_dict))

\* for sev_dict in charm_severity_cnt.values(): ...
RECURSIVE severity_totals(_, _)
severity_totals(severity_cnt, charm_severity_cnt) ==
    IF charm_severity_cnt = <<>> THEN severity_cnt
    ELSE severity_totals(add_all(severity_cnt, Head(charm_severity_cnt).val),
                         Tail(charm_severity_cnt))

\* Mutant of duplicates: "if cnt <= 2: continue".
duplicates_off_by_one(message_cnt) ==
    LET hits == SelectSeq(message_cnt, LAMBDA e : ~(e.val <= 2))
    IN  [i \in 1..Len(hits) |->
            [sev |-> hits[i].key[2], cnt |-> hits[i].val, msg |-> hits[i].key[1]]]

\* The entries of message_cnt that are printed: "if cnt < 2: continue".
duplicates(message_cnt) ==
    LET hits == SelectSeq(message_cnt, LAMBDA e : ~(e.val < 2))
    IN  [i \in 1..Len(hits) |->
            [sev |-> hits[i].key[2], cnt |-> hits[i].val, msg |-> hits[i].key[1]]]

\* Mutant of percent: the ratio is cut off after two decimals, not rounded.
percent_truncated(cnt, charm_total) == (10000 * cnt) \div charm_total

\* "{:.2%}".format(cnt / charm_total), in hundredths of a percent, rounded
\* to the nearest (a tie needs charm_total to be a multiple of 32).
percent(cnt, charm_total) == (20000 * cnt + charm_total) \div (2 * charm_total)

\* The per-charm section: charm, charm_total and each severity's share.
ratios(charm_severity_cnt) ==
    [i \in 1..Len(charm_severity_cnt) |->
        LET sev_dict    == charm_severity_cnt[i].val
            charm_total == sum_values(sev_dict)
        IN  [charm       |-> charm_severity_cnt[i].key,
             charm_total |-> charm_total,
             shares      |-> [j \in 1..Len(sev_dict) |->
                                 [sev   |-> sev_dict[j].key,
                                  cnt   |-> sev_dict[j].val,
                                  ratio |-> percent(sev_dict[j].val, charm_total)]]]]

RECURSIVE sum_totals(_)
sum_totals(rs) == IF rs = <<>> THEN 0 ELSE Head(rs).charm_total + sum_totals(Tail(rs))

\* cnt / charm_total raises ZeroDivisionError when a charm's total is 0.
divides_by_zero(charm_severity_cnt) ==
    \E i \in 1..Len(charm_severity_cnt) :
        /\ charm_severity_cnt[i].val # <<>>
        /\ sum_values(charm_severity_cnt[i].val) = 0

\* What print_report prints, section by section.
report_of(charm_severity_cnt, message_cnt, dropped_cnt) ==
    [warning_charms   |-> warning_charms(charm_severity_cnt),
     severity_cnt     |-> severity_totals(<<>>, charm_severity_cnt),
     duplicates       |-> duplicates(message_cnt),
     ratios           |-> ratios(charm_severity_cnt),
     overall_messages |-> sum_totals(ratios(charm_severity_cnt)),
     dropped          |-> dropped_cnt]

(***************************************************************************)
(* The program: __main__ builds the datastore, calc_log_stats runs         *)
(* analyze over cleaner(f), print_report prints.                           *)
(***************************************************************************)
VARIABLES
    input,              \* the lines of the log file f
    charm_filter,       \* args.charm_filter
    pos,                \* lines of f the cleaner has read
    yielded,            \* records yielded by cleaner, not yet taken by analyze
    charm_severity_cnt, \* datastore.charm_severity_cnt
    message_cnt,        \* datastore.message_cnt
    dropped_cnt,        \* datastore.dropped_cnt
    pc,                 \* "analyze", "report", "done", "error"
    report,             \* what print_report printed, None before
    outcome             \* history: what became of each line, in order

vars == << input, charm_filter, pos, yielded, charm_severity_cnt, message_cnt,
           dropped_cnt, pc, report, outcome >>

Init ==
    /\ input \in Inputs
    /\ charm_filter \in CharmFilters
    /\ pos = 0
    /\ yielded = <<>>
    /\ charm_severity_cnt = <<>>
    /\ message_cnt = <<>>
    /\ dropped_cnt = 0
    /\ pc = "analyze"
    /\ report = None
    /\ outcome = <<>>

\* cleaner reads the next line of f.
cleaner ==
    /\ pc = "analyze"
    /\ resumable(yielded)
    /\ pos < Len(input)
    /\ LET r == cleaner_line(input[pos + 1]) IN
        /\ pos' = pos + 1
        /\ dropped_cnt' = dropped_cnt + r.dropped
        /\ yielded' = yielded \o r.yielded
        /\ outcome' = IF r.yielded = <<>>
                      THEN Append(outcome, [kind |-> "dropped", rec |-> None])
                      ELSE outcome
    /\ UNCHANGED << input, charm_filter, charm_severity_cnt, message_cnt, pc,
                    report >>

\* analyze takes the record cleaner yielded.
analyze ==
    /\ pc = "analyze"
    /\ yielded # <<>>
    /\ LET r == analyze_record(Head(yielded), charm_filter,
                               charm_severity_cnt, message_cnt) IN
        /\ charm_severity_cnt' = r.charm_severity_cnt
        /\ message_cnt' = r.message_cnt
        /\ dropped_cnt' = dropped_cnt + r.dropped
        /\ outcome' = Append(outcome, [kind |-> r.branch,
                                       rec  |-> Some(Head(yielded))])
    /\ yielded' = Tail(yielded)
    /\ UNCHANGED << input, charm_filter, pos, pc, report >>

\* f is exhausted: cleaner and analyze return, and with them calc_log_stats.
calc_log_stats ==
    /\ pc = "analyze"
    /\ pos = Len(input)
    /\ yielded = <<>>
    /\ pc' = "report"
    /\ UNCHANGED << input, charm_filter, pos, yielded, charm_severity_cnt,
                    message_cnt, dropped_cnt, report, outcome >>

print_report ==
    /\ pc = "report"
    /\ IF divides_by_zero(charm_severity_cnt)
       THEN /\ pc' = "error"
            /\ report' = report
       ELSE /\ pc' = "done"
            /\ report' = Some(report_of(charm_severity_cnt, message_cnt,
                                        dropped_cnt))
    /\ UNCHANGED << input, charm_filter, pos, yielded, charm_severity_cnt,
                    message_cnt, dropped_cnt, outcome >>

Next == cleaner \/ analyze \/ calc_log_stats \/ print_report

Spec == Init /\ [][Next]_vars

(***************************************************************************)
(* The claims.                                                             *)
(***************************************************************************)
(***************************************************************************)
(* What the claims speak of, stated on the text of a line, without the     *)
(* program's own split and join.                                           *)
(***************************************************************************)
IsSpace(c) == c = " " \/ c = "\t" \/ c = "\n"

\* Where the whitespace-delimited fields of a line start.
FieldStarts(line) ==
    { i \in 1..Len(line) :
        ~IsSpace(line[i]) /\ (i = 1 \/ IsSpace(line[i - 1])) }

NumFields(line) == Cardinality(FieldStarts(line))

\* Where the n-th field starts, and where the field that starts at i ends.
FieldStart(line, n) ==
    CHOOSE i \in FieldStarts(line) :
        Cardinality({ j \in FieldStarts(line) : j < i }) = n - 1

FieldEnd(line, i) ==
    CHOOSE k \in i..Len(line) :
        /\ \A j \in i..k : ~IsSpace(line[j])
        /\ k = Len(line) \/ IsSpace(line[k + 1])

Field(line, n) ==
    SubSeq(line, FieldStart(line, n), FieldEnd(line, FieldStart(line, n)))

Hyphens(tok) == { i \in 1..Len(tok) : tok[i] = "-" }

\* "unit", then at least two more hyphen-separated parts.
UnitShaped(tok) ==
    /\ Cardinality(Hyphens(tok)) >= 2
    /\ SubSeq(tok, 1, 5) = <<"u", "n", "i", "t", "-">>

Malformed(line) == NumFields(line) < 4 \/ ~UnitShaped(Field(line, 1))

\* The text between the first and the last hyphen of a unit-shaped field.
CharmOf(tok) ==
    LET first == CHOOSE i \in Hyphens(tok) : \A j \in Hyphens(tok) : i <= j
        last  == CHOOSE i \in Hyphens(tok) : \A j \in Hyphens(tok) : j <= i
    IN  SubSeq(tok, first + 1, last - 1)

\* From the start of field 4 to the last character that is not whitespace.
MessageOf(line) ==
    LET last == CHOOSE i \in 1..Len(line) :
                    ~IsSpace(line[i]) /\ \A j \in (i + 1)..Len(line) : IsSpace(line[j])
    IN  SubSeq(line, FieldStart(line, 4), last)

RecordOf(line) == << CharmOf(Field(line, 1)), Field(line, 3), MessageOf(line) >>

\* The two above, tabulated once over the lines the inputs are made of.
AllLines ==
    Vocabulary \cup { ExampleInput[i] : i \in 1..Len(ExampleInput) }
               \cup { MixedInput[i] : i \in 1..Len(MixedInput) }

MalformedLines == { line \in AllLines : Malformed(line) }

RecordTable == [line \in AllLines \ MalformedLines |-> RecordOf(line)]

IsMalformed(line) == line \in MalformedLines

Expected(line) == RecordTable[line]

SeverityTexts == { StrINFO, StrDEBUG, StrWARNING, StrERROR }

SevOf(text) == CHOOSE sev \in Severities : name(sev) = text

Last(s) == s[Len(s)]

NumKind(kind) == Cardinality({ i \in 1..Len(outcome) : outcome[i].kind = kind })

\* The aggregated records, in the order they were aggregated.
Aggregated ==
    LET hits == SelectSeq(outcome, LAMBDA o : o.kind = "aggregated")
    IN  [i \in 1..Len(hits) |->
            [charm |-> hits[i].rec[1][1],
             sev   |-> SevOf(hits[i].rec[1][2]),
             msg   |-> hits[i].rec[1][3]]]

\* s without its repetitions: each element where it first occurs.
RECURSIVE FirstSeen(_)
FirstSeen(s) ==
    IF s = <<>> THEN <<>>
    ELSE <<Head(s)>> \o FirstSeen(SelectSeq(Tail(s), LAMBDA x : x # Head(s)))

Keys(d) == [i \in 1..Len(d) |-> d[i].key]

\* C1: reading a line that has fewer than 4 whitespace-delimited fields, or
\* whose first field is not "unit" followed by at least two more
\* hyphen-separated parts, adds exactly 1 to dropped_cnt and yields no record.
C1_MalformedLineDropped ==
    [][ (pos' = pos + 1 /\ IsMalformed(input[pos']))
            => (dropped_cnt' = dropped_cnt + 1 /\ yielded' = yielded) ]_vars

\* Both kinds of malformed line have been read and counted.
C1_Witness ==
    /\ pos = 2
    /\ NumFields(input[1]) < 4
    /\ NumFields(input[2]) >= 4 /\ ~UnitShaped(Field(input[2], 1))
    /\ dropped_cnt = 2
    /\ yielded = <<>>

\* C2: reading a well-formed line yields exactly one record: the charm is the
\* parts of the first field between the leading "unit" and the last part,
\* hyphens kept, the severity text is field 3, the message is field 4 trimmed;
\* "unit-mycharm-name-42 x INFO hello" yields the charm "mycharm-name".
C2_WellFormedLineYieldsRecord ==
    [][ (pos' = pos + 1 /\ ~IsMalformed(input[pos']))
            => /\ yielded' = Append(yielded, Expected(input[pos']))
               /\ dropped_cnt' = dropped_cnt
               /\ input[pos'] = LineHyphenCharm
                      => Last(yielded')[1] = StrMycharmName ]_vars

\* The record of the example line, just yielded.
C2_Witness ==
    /\ pos >= 1
    /\ input[pos] = LineHyphenCharm
    /\ yielded = << <<StrMycharmName, StrINFO, StrHello>> >>

\* C3: analyze, taking a record whose severity text is not exactly one of
\* INFO, DEBUG, WARNING, ERROR, leaves charm_severity_cnt, message_cnt and
\* dropped_cnt unchanged.
C3_UnresolvedSeverityIgnored ==
    [][ (yielded # <<>> /\ yielded' = Tail(yielded)
         /\ Head(yielded)[2] \notin SeverityTexts)
            => UNCHANGED << charm_severity_cnt, message_cnt, dropped_cnt >> ]_vars

\* A CRITICAL record has been taken by analyze, with no filter in the way.
C3_Witness ==
    /\ charm_filter = None
    /\ outcome # <<>>
    /\ Last(outcome).rec = Some(<<StrNginx, StrCRITICAL, StrCrash>>)
    /\ yielded = <<>>

\* C4: run with a charm filter, analyze skips every record whose charm is not
\* the filter and touches no counter for it: every key of charm_severity_cnt
\* is the filter, every aggregated record has the filter's charm, and
\* dropped_cnt is the number of malformed lines read, as without a filter.
C4_FilterSkipsOtherCharms ==
    charm_filter # None =>
        /\ \A i \in 1..Len(charm_severity_cnt) :
               charm_severity_cnt[i].key = charm_filter[1]
        /\ \A i \in 1..Len(Aggregated) : Aggregated[i].charm = charm_filter[1]
        /\ dropped_cnt = Cardinality({ i \in 1..pos : IsMalformed(input[i]) })

\* What holds of the code: the same, for a filter that is not the empty string.
C4_NonEmptyFilterSkipsOtherCharms ==
    (charm_filter # None /\ charm_filter[1] # <<>>) =>
        /\ \A i \in 1..Len(charm_severity_cnt) :
               charm_severity_cnt[i].key = charm_filter[1]
        /\ \A i \in 1..Len(Aggregated) : Aggregated[i].charm = charm_filter[1]
        /\ dropped_cnt = Cardinality({ i \in 1..pos : IsMalformed(input[i]) })


\* How many aggregated records have this message text and this severity.
Occurrences(msg, sev) ==
    Cardinality({ i \in 1..Len(Aggregated) :
                    Aggregated[i].msg = msg /\ Aggregated[i].sev = sev })

\* C5: message_cnt[(message, severity)] is the number of aggregated records
\* with that message text and that severity, whatever their charm, and the
\* report's duplicate section lists an entry if and only if its count is >= 2.
C5_MessageCountsAndDuplicates ==
    /\ \A i \in 1..Len(message_cnt) :
           /\ \A j \in 1..Len(message_cnt) :
                  message_cnt[j].key = message_cnt[i].key => j = i
           /\ message_cnt[i].val =
                  Occurrences(message_cnt[i].key[1], message_cnt[i].key[2])
    /\ \A i \in 1..Len(Aggregated) :
           \E j \in 1..Len(message_cnt) :
               message_cnt[j].key = << Aggregated[i].msg, Aggregated[i].sev >>
    /\ pc = "done" =>
           LET listed == report[1].duplicates IN
           /\ \A i \in 1..Len(message_cnt) :
                  message_cnt[i].val >= 2 <=>
                      \E k \in 1..Len(listed) :
                          listed[k] = [sev |-> message_cnt[i].key[2],
                                       cnt |-> message_cnt[i].val,
                                       msg |-> message_cnt[i].key[1]]
           /\ \A k \in 1..Len(listed) :
                  /\ listed[k].cnt = Occurrences(listed[k].msg, listed[k].sev)
                  /\ \A m \in 1..Len(listed) :
                         (listed[m].msg = listed[k].msg
                          /\ listed[m].sev = listed[k].sev) => m = k

\* The report lists one duplicate, of two charms' records, and omits an entry
\* counted once.
C5_Witness ==
    /\ pc = "done"
    /\ Len(report[1].duplicates) = 1
    /\ \E i, j \in 1..Len(Aggregated) :
           /\ Aggregated[i].msg = Aggregated[j].msg
           /\ Aggregated[i].sev = Aggregated[j].sev
           /\ Aggregated[i].charm # Aggregated[j].charm
    /\ \E i \in 1..Len(message_cnt) : message_cnt[i].val = 1

\* The severities of the aggregated records, in input order.
SevsInInputOrder == [i \in 1..Len(Aggregated) |-> Aggregated[i].sev]

\* The same, charm by charm: the charms in first-seen order, each charm's
\* records in input order.
RECURSIVE SevsOfCharms(_)
SevsOfCharms(charms) ==
    IF charms = <<>> THEN <<>>
    ELSE LET own == SelectSeq(Aggregated, LAMBDA r : r.charm = Head(charms))
         IN  [i \in 1..Len(own) |-> own[i].sev] \o SevsOfCharms(Tail(charms))

SevsCharmByCharm ==
    SevsOfCharms(FirstSeen([i \in 1..Len(Aggregated) |-> Aggregated[i].charm]))

\* Each severity listed has its total over all charms.
SeverityTotalsRight ==
    \A k \in 1..Len(report[1].severity_cnt) :
        report[1].severity_cnt[k].val =
            Cardinality({ i \in 1..Len(Aggregated) :
                            Aggregated[i].sev = report[1].severity_cnt[k].key })

\* C6 as claimed: the severity-counts section lists each aggregated severity
\* once, with its total over all charms, in the order in which the severities
\* first occur among the aggregated records of the input.
C6_SeveritiesInInputOrder ==
    pc = "done" =>
        /\ Keys(report[1].severity_cnt) = FirstSeen(SevsInInputOrder)
        /\ SeverityTotalsRight

\* C6 as amended: the severity-counts section lists each aggregated severity
\* once, with its total over all charms, in the order in which the severities
\* are first met going through the charms in first-seen order and, within a
\* charm, through its records in input order.
C6_SeveritiesCharmByCharm ==
    pc = "done" =>
        /\ Keys(report[1].severity_cnt) = FirstSeen(SevsCharmByCharm)
        /\ SeverityTotalsRight

\* Two charms interleave so that the two orders differ, and a severity is
\* summed over both charms.
C6_Witness ==
    /\ pc = "done"
    /\ FirstSeen(SevsCharmByCharm) # FirstSeen(SevsInInputOrder)
    /\ Keys(report[1].severity_cnt) = FirstSeen(SevsCharmByCharm)

\* C7: in every state every charm of charm_severity_cnt has a severity mapping
\* that is not empty and whose counts are all >= 1, so print_report never
\* divides by zero, and no charm or severity is entered twice.
C7_NoEmptyCharmEntry ==
    /\ \A i \in 1..Len(charm_severity_cnt) :
           /\ charm_severity_cnt[i].val # <<>>
           /\ \A j \in 1..Len(charm_severity_cnt[i].val) :
                  charm_severity_cnt[i].val[j].val >= 1
           /\ sum_values(charm_severity_cnt[i].val) >= 1
    /\ pc # "error"
    /\ pc = "done" =>
           \A i \in 1..Len(report[1].ratios) :
               report[1].ratios[i].charm_total >= 1

\* The report has been printed for two charms, after a record with an
\* unresolvable severity was met.
C7_Witness ==
    /\ pc = "done"
    /\ Len(charm_severity_cnt) = 2
    /\ Len(report[1].ratios) = 2
    /\ NumKind("unresolved") >= 1

\* C8: without a filter the five-line example ends with dropped_cnt = 1, the
\* warning charms [mysql], the totals INFO 1, WARNING 2, ERROR 1, the one
\* duplicate (WARNING, 2, 'disk low'), mysql at INFO 1 of 3 (33.33%) and
\* WARNING 2 of 3 (66.67%), and 4 messages analyzed.
C8_Example ==
    (input = ExampleInput /\ charm_filter = None /\ pc = "done") =>
        /\ dropped_cnt = 1
        /\ report[1].dropped = 1
        /\ report[1].warning_charms = <<StrMysql>>
        /\ { report[1].severity_cnt[k] : k \in 1..Len(report[1].severity_cnt) }
               = { [key |-> "INFO", val |-> 1], [key |-> "WARNING", val |-> 2],
                   [key |-> "ERROR", val |-> 1] }
        /\ Len(report[1].severity_cnt) = 3
        /\ report[1].duplicates
               = << [sev |-> "WARNING", cnt |-> 2, msg |-> StrDiskLow] >>
        /\ report[1].ratios[1] =
               [charm |-> StrMysql, charm_total |-> 3,
                shares |-> << [sev |-> "INFO", cnt |-> 1, ratio |-> 3333],
                              [sev |-> "WARNING", cnt |-> 2, ratio |-> 6667] >>]
        /\ report[1].overall_messages = 4

C8_Witness == input = ExampleInput /\ charm_filter = None /\ pc = "done"

\* C9: the lines are read once each and in input order, the cleaner does not
\* read a line before analyze is done with the record of the line before, so
\* at most one record is waiting, and print_report starts only when every
\* line has been processed.
C9_LazyHandOff ==
    /\ Len(yielded) <= 1
    /\ pos <= Len(input)
    /\ pos = Len(outcome) + Len(yielded)
    /\ yielded # <<>> => yielded[1] = Expected(input[pos])
    /\ \A i \in 1..Len(outcome) :
           IF IsMalformed(input[i])
           THEN outcome[i].kind = "dropped"
           ELSE outcome[i].rec = Some(Expected(input[i]))
    /\ pc \in { "report", "done" } =>
           (pos = Len(input) /\ yielded = <<>> /\ Len(outcome) = Len(input))
    /\ report # None => pc = "done"

\* A record is waiting for analyze while lines before it are done and lines
\* after it are unread.
C9_Witness ==
    /\ pc = "analyze"
    /\ Len(yielded) = 1
    /\ pos >= 2
    /\ pos < Len(input)

\* C10: every line read is accounted for in exactly one way: dropped, skipped
\* by the filter, skipped for its severity, aggregated, or waiting; the sums
\* of charm_severity_cnt's and of message_cnt's counts are the number of
\* records aggregated, and that is the total the report prints.
C10_Conservation ==
    LET stored == [i \in 1..Len(charm_severity_cnt) |->
                      [key |-> i, val |-> sum_values(charm_severity_cnt[i].val)]]
    IN  /\ pos = dropped_cnt + NumKind("filtered") + NumKind("unresolved")
                     + NumKind("aggregated") + Len(yielded)
        /\ sum_values(stored) = NumKind("aggregated")
        /\ sum_values(message_cnt) = NumKind("aggregated")
        /\ pc \in { "report", "done" } =>
               Len(input) = dropped_cnt + NumKind("filtered")
                                + NumKind("unresolved") + NumKind("aggregated")
        /\ pc = "done" =>
               /\ report[1].overall_messages = NumKind("aggregated")
               /\ report[1].dropped = dropped_cnt

\* A run that ended with lines of all four fates.
C10_Witness ==
    /\ pc = "done"
    /\ dropped_cnt >= 1
    /\ NumKind("filtered") >= 1
    /\ NumKind("unresolved") >= 1
    /\ NumKind("aggregated") >= 1

=============================================================================
